---- MODULE Spec2Model ----
(***************************************************************************)
(* A model of src/main.py: the membership-gated broadcast bot.             *)
(*                                                                         *)
(* The bot is one asyncio event loop.  Updates are handled one at a time   *)
(* (the application is built without concurrent updates), each handler     *)
(* running until it returns; run_broadcast is a separate task created by   *)
(* /broadcast and /fcast that interleaves with the handlers at its await   *)
(* points.  An action of this module is the code between two awaits.       *)
(***************************************************************************)
EXTENDS Integers, Sequences, FiniteSets, TLC

(* ---------------------------------------------------------------------- *)
(* Bounds of the model and constants of the program                       *)
(* ---------------------------------------------------------------------- *)

\* largest user directory a run of the engine alone iterates (RunSpec)
MaxDirectory == 25

\* largest user directory in the interleaved bot (Spec)
MaxUsers == 2

\* background tasks that can be alive at once in the model
MaxRuns == 2

\* main.py:732  if (success_count + failed_count) % 10 == 0
ProgressEvery == 10

\* main.py:112  max_retries = 3
max_retries == 3

Runs == 1..MaxRuns

\* main.py:57  the configured admin identity, a string
ADMIN_USER_ID == <<"1">>

\* the kinds of message a /broadcast or /fcast can reply to; "other" is a
\* message with none of the seven attributes run_broadcast looks for
PayloadKinds == {"text", "photo", "video", "document", "audio", "voice", "sticker", "other"}

\* the kinds the model feeds in
PayloadInputs == {"text", "sticker", "other"}

VARIABLES
    CHANNEL_ID,                \* main.py:54  "" when not configured
    GROUP_ID,                  \* main.py:55  "" when not configured
    users_collection,          \* main.py:75  user ids in insertion order
    custom_commands_collection,\* main.py:76  documents in insertion order
    broadcast_active,          \* main.py:41
    broadcast_cancelled,       \* main.py:42
    broadcast_task,            \* main.py:43  0 is None, else the latest task
    task,                      \* the run_broadcast tasks, by slot
    handler,                   \* the update handler in progress, if any
    last,                      \* what the handler step just taken did
    out,                       \* the progress message written by the step just taken
    vm,                        \* a check_all_memberships call stepped through
    boot                       \* main.py:53-83  the environment and the start-up

vars == <<CHANNEL_ID, GROUP_ID, users_collection, custom_commands_collection,
          broadcast_active, broadcast_cancelled, broadcast_task, task,
          handler, last, out, vm, boot>>

config == <<CHANNEL_ID, GROUP_ID, boot>>
flags == <<broadcast_active, broadcast_cancelled>>

\* main.py:69
REQUIRES_VERIFICATION == CHANNEL_ID # "" \/ GROUP_ID # ""

(* ---------------------------------------------------------------------- *)
(* run_broadcast                                                          *)
(* ---------------------------------------------------------------------- *)

\* a slot holding no task
NoTask ==
    [pc |-> "none", is_forward |-> FALSE, kind |-> "text", total_users |-> 0,
     cursor |-> <<>>, pos |-> 0, success_count |-> 0, failed_count |-> 0,
     sent_to |-> <<>>, flagged |-> FALSE, exit |-> "none"]

\* asyncio.create_task(run_broadcast(update, context, replied_message, is_forward))
NewTask(is_forward, kind) ==
    [NoTask EXCEPT !.pc = "created", !.is_forward = is_forward, !.kind = kind]

\* a task that has ended: returned, raised (an exception left run_broadcast)
\* or cancelled (CancelledError thrown in by wait_for)
Finished(exit) == [NoTask EXCEPT !.pc = "done", !.exit = exit]

\* a task in the except clause of main.py:755-757, awaiting its reply; none
\* of its locals is read again
Failing == [NoTask EXCEPT !.pc = "await_error"]

\* no task wrote a message or ended in this step
NoOut == [kind |-> "none", run |-> 0, sent |-> 0, success |-> 0, failed |-> 0,
          after |-> 0, at |-> "none"]

\* what task r, in state t, shows in this step: an edit of the progress
\* message ("progress", "cancelled", "completed") with the numbers in its
\* text, the reply of the except clause ("error"), or its being cancelled
\* ("killed"). after: the delivery attempts started so far; at: where the
\* task was suspended.
Edit(kind, r, t, sent) ==
    [kind |-> kind, run |-> r, sent |-> sent, success |-> t.success_count,
     failed |-> t.failed_count, after |-> t.pos, at |-> t.pc]

\* no handler replied or went on in this step
NoLast == [cmd |-> "none", user |-> 0, is_member |-> TRUE, body |-> FALSE,
           reply |-> "none"]

InProgress(t) == t.pc \notin {"none", "done"}

\* the task is between main.py:613 and its end: the state the spec calls
\* Running
Running(t) ==
    t.pc \in {"sending", "await_edit", "sleeping", "await_cancel_edit", "await_final"}

\* main.py:639-724: forward mode and the fallback of broadcast mode call
\* forward_message in the loop's own try; the seven typed kinds go through
\* send_to_user, which catches
UsesSendToUser(t) == ~t.is_forward /\ t.kind \in (PayloadKinds \ {"other"})

\* main.py:625-636: the top of the for loop. The cursor is advanced first
\* (an exhausted cursor leaves the loop), then the cancel flag is read.
LoopHead(t, cancelled) ==
    IF t.pos = Len(t.cursor) THEN [t EXCEPT !.pc = "await_final"]
    ELSE IF cancelled THEN [t EXCEPT !.pc = "await_cancel_edit"]
    ELSE [t EXCEPT !.pc = "sending", !.pos = @ + 1,
                   !.sent_to = Append(@, t.cursor[t.pos + 1])]

\* main.py:731-741: after the counters are updated
AfterCount(t) ==
    IF (t.success_count + t.failed_count) % ProgressEvery = 0
    THEN [t EXCEPT !.pc = "await_edit"]
    ELSE [t EXCEPT !.pc = "sleeping"]

\* a delivery failure that escapes the loop
LoopExceptAborts(t, cancelled) == Failing

\* main.py:743-745: the loop's except clause
LoopExcept(t, cancelled) ==
    LoopHead([t EXCEPT !.failed_count = @ + 1], cancelled)

\* a cleanup that forgets the cancel flag
FinallyKeepsCancelled ==
    /\ broadcast_active' = FALSE
    /\ UNCHANGED broadcast_cancelled

\* main.py:758-761: finally
FinallyReset ==
    /\ broadcast_active' = FALSE
    /\ broadcast_cancelled' = FALSE

\* main.py:599-610: the task's first step, up to the await of the progress
\* message. db_ok = FALSE: count_documents raises.
RunStart(r, db_ok) ==
    /\ task[r].pc = "created"
    /\ task' = [task EXCEPT ![r] =
           IF db_ok
           THEN [@ EXCEPT !.pc = "await_progress",
                          !.total_users = Len(users_collection)]
           ELSE Failing]
    /\ out' = NoOut
    /\ last' = NoLast
    /\ UNCHANGED <<config, users_collection, custom_commands_collection,
                   flags, broadcast_task, handler, vm>>

\* main.py:605-636: the reply with the progress message returns (ok) or
\* raises; then the flags are set and the loop is entered. db_ok = FALSE:
\* the cursor's first fetch raises.
ProgressSent(r, ok, db_ok) ==
    /\ task[r].pc = "await_progress"
    /\ IF ok
       THEN /\ broadcast_active' = TRUE
            /\ broadcast_cancelled' = FALSE
            /\ task' = [task EXCEPT ![r] =
                   IF db_ok
                   THEN LoopHead([@ EXCEPT !.cursor = users_collection], FALSE)
                   ELSE Failing]
       ELSE /\ task' = [task EXCEPT ![r] = Failing]
            /\ UNCHANGED flags
    /\ out' = NoOut
    /\ last' = NoLast
    /\ UNCHANGED <<config, users_collection, custom_commands_collection,
                   broadcast_task, handler, vm>>

\* main.py:638-745: the delivery to one user returns (ok) or raises
SendDone(r, ok) ==
    /\ task[r].pc = "sending"
    /\ task' = [task EXCEPT ![r] =
           IF ok THEN AfterCount([@ EXCEPT !.success_count = @ + 1])
           ELSE IF UsesSendToUser(@)
                THEN AfterCount([@ EXCEPT !.failed_count = @ + 1])
                ELSE LoopExcept(@, broadcast_cancelled)]
    /\ out' = NoOut
    /\ last' = NoLast
    /\ UNCHANGED <<config, users_collection, custom_commands_collection,
                   flags, broadcast_task, handler, vm>>

\* main.py:732-745: the edit of the progress message returns or raises
EditDone(r, ok) ==
    /\ task[r].pc = "await_edit"
    /\ IF ok
       THEN /\ task' = [task EXCEPT ![r].pc = "sleeping"]
            /\ out' = Edit("progress", r, task[r], task[r].total_users)
       ELSE /\ task' = [task EXCEPT ![r] = LoopExcept(@, broadcast_cancelled)]
            /\ out' = NoOut
    /\ last' = NoLast
    /\ UNCHANGED <<config, users_collection, custom_commands_collection,
                   flags, broadcast_task, handler, vm>>

\* main.py:741: asyncio.sleep(0.1) returns
SleepDone(r) ==
    /\ task[r].pc = "sleeping"
    /\ task' = [task EXCEPT ![r] = LoopHead(@, broadcast_cancelled)]
    /\ out' = NoOut
    /\ last' = NoLast
    /\ UNCHANGED <<config, users_collection, custom_commands_collection,
                   flags, broadcast_task, handler, vm>>

\* main.py:627-636: the "cancelled" report is written (or raises); then the
\* flags are reset, the function returns and finally runs
CancelEditDone(r, ok) ==
    /\ task[r].pc = "await_cancel_edit"
    /\ IF ok
       THEN /\ task' = [task EXCEPT ![r] = Finished("returned")]
            /\ out' = Edit("cancelled", r, task[r],
                           task[r].success_count + task[r].failed_count)
            /\ broadcast_active' = FALSE
            /\ broadcast_cancelled' = FALSE
       ELSE /\ task' = [task EXCEPT ![r] = Failing]
            /\ out' = NoOut
            /\ UNCHANGED flags
    /\ last' = NoLast
    /\ UNCHANGED <<config, users_collection, custom_commands_collection,
                   broadcast_task, handler, vm>>

\* main.py:747-761: the "completed" report is written (or raises)
FinalEditDone(r, ok) ==
    /\ task[r].pc = "await_final"
    /\ IF ok
       THEN /\ task' = [task EXCEPT ![r] = Finished("returned")]
            /\ out' = Edit("completed", r, task[r], task[r].total_users)
            /\ FinallyReset
       ELSE /\ task' = [task EXCEPT ![r] = Failing]
            /\ out' = NoOut
            /\ UNCHANGED flags
    /\ last' = NoLast
    /\ UNCHANGED <<config, users_collection, custom_commands_collection,
                   broadcast_task, handler, vm>>

\* main.py:755-761: the except clause's reply returns or raises; finally
ErrorReplyDone(r, ok) ==
    /\ task[r].pc = "await_error"
    /\ task' = [task EXCEPT ![r] = Finished(IF ok THEN "returned" ELSE "raised")]
    /\ out' = Edit("error", r, task[r], 0)
    /\ FinallyReset
    /\ last' = NoLast
    /\ UNCHANGED <<config, users_collection, custom_commands_collection,
                   broadcast_task, handler, vm>>

\* task r enters or leaves run_broadcast
EdgeStep(r) ==
    \/ \E db_ok \in BOOLEAN : RunStart(r, db_ok)
    \/ \E ok \in BOOLEAN, db_ok \in BOOLEAN : ProgressSent(r, ok, db_ok)
    \/ \E ok \in BOOLEAN : FinalEditDone(r, ok)
    \/ \E ok \in BOOLEAN : ErrorReplyDone(r, ok)

\* task r goes round the loop
LoopStep(r) ==
    \/ \E ok \in BOOLEAN : SendDone(r, ok)
    \/ SleepDone(r)

(* ---------------------------------------------------------------------- *)
(* Strings: a string is a sequence of one-character strings               *)
(* ---------------------------------------------------------------------- *)

Digits == <<"0", "1", "2", "3", "4", "5", "6", "7", "8", "9">>

\* str(n) of a non-negative int
RECURSIVE Str(_)
Str(n) == IF n < 10 THEN <<Digits[n + 1]>>
          ELSE Str(n \div 10) \o <<Digits[(n % 10) + 1]>>

\* an owner check that everybody passes
is_owner_anyone(user_id) == TRUE

\* main.py:85-86
is_owner(user_id) == Str(user_id) = ADMIN_USER_ID

\* str.lower(), one character
LowerChar(c) ==
    CASE c = "A" -> "a"
      [] c = "B" -> "b"
      [] OTHER -> c

\* str.lower()
Lower(s) == [i \in DOMAIN s |-> LowerChar(s[i])]

\* str.strip(): leading and trailing whitespace goes
RECURSIVE Strip(_)
Strip(s) ==
    IF s = <<>> THEN s
    ELSE IF Head(s) = " " THEN Strip(Tail(s))
    ELSE IF s[Len(s)] = " " THEN Strip(SubSeq(s, 1, Len(s) - 1))
    ELSE s

\* str.isalnum() in place of str.isalpha()
IsAlnum(s) ==
    /\ s # <<>>
    /\ \A i \in DOMAIN s :
          s[i] \in {"a", "b", "A", "B", "e", "h", "l", "p", "0", "1", "2"}

\* str.isalpha(): not empty, letters only
IsAlpha(s) ==
    /\ s # <<>>
    /\ \A i \in DOMAIN s : s[i] \in {"a", "b", "A", "B", "e", "h", "l", "p"}

\* ' '.join(words)
RECURSIVE Join(_)
Join(words) ==
    IF words = <<>> THEN <<>>
    ELSE IF Len(words) = 1 THEN words[1]
    ELSE words[1] \o <<" ">> \o Join(Tail(words))

(* ---------------------------------------------------------------------- *)
(* custom_commands_collection: the documents in insertion order           *)
(* ---------------------------------------------------------------------- *)

\* the documents whose command field is `name`
Matches(coll, name) == {i \in DOMAIN coll : coll[i].command = name}

\* the first of them
First(is) == CHOOSE i \in is : \A j \in is : i <= j

\* an insert in place of the upsert
InsertOne(coll, name, link, description) ==
    Append(coll, [command |-> name, link |-> link, description |-> description])

\* main.py:439-446: update_one({"command": name}, {"$set": ...}, upsert=True)
UpdateOne(coll, name, link, description) ==
    IF Matches(coll, name) = {}
    THEN Append(coll, [command |-> name, link |-> link, description |-> description])
    ELSE [coll EXCEPT ![First(Matches(coll, name))] =
             [@ EXCEPT !.link = link, !.description = description]]

\* a delete that ignores its filter
DeleteAny(coll, name) == IF coll = <<>> THEN coll ELSE Tail(coll)

\* main.py:486: delete_one({"command": name})
DeleteOne(coll, name) ==
    IF Matches(coll, name) = {} THEN coll
    ELSE LET i == First(Matches(coll, name))
         IN SubSeq(coll, 1, i - 1) \o SubSeq(coll, i + 1, Len(coll))

(* ---------------------------------------------------------------------- *)
(* check_membership and check_all_memberships                             *)
(* ---------------------------------------------------------------------- *)

\* ChatMember.status as the chat platform reports it
Statuses == {"member", "administrator", "creator", "restricted", "left", "kicked"}

\* a status test that takes everybody who was not banned for a member
IsNotKicked(status) == status # "kicked"

\* main.py:123 and main.py:134
IsPresent(status) == status \in {"member", "administrator", "creator", "restricted"}

\* what a lookup can do: return a status, or raise
Outcomes == Statuses \cup {"error"}

\* main.py:139 and main.py:146: the retries are used up
LastAttempt(attempt) == attempt = max_retries - 1

\* a verifier that fails open
ExhaustedResultOpen == TRUE

\* main.py:140: what check_membership returns once they are
ExhaustedResult == FALSE

\* any(results) in place of all(results)
check_any_membership(ch, gr) ==
    IF ~REQUIRES_VERIFICATION THEN TRUE
    ELSE LET results == (IF CHANNEL_ID # "" THEN <<ch>> ELSE <<>>)
                        \o (IF GROUP_ID # "" THEN <<gr>> ELSE <<>>)
         IN \E i \in DOMAIN results : results[i]

\* main.py:152-169: the value check_all_memberships returns when
\* check_membership answers ch for the channel and gr for the group
check_all_memberships(ch, gr) ==
    IF ~REQUIRES_VERIFICATION THEN TRUE
    ELSE LET results == (IF CHANNEL_ID # "" THEN <<ch>> ELSE <<>>)
                        \o (IF GROUP_ID # "" THEN <<gr>> ELSE <<>>)
         IN \A i \in DOMAIN results : results[i]

\* no call of check_all_memberships is in progress. status: member.status
\* of the lookup that answered in the check_membership in progress
NoVm == [pc |-> "idle", todo |-> <<>>, chat |-> "none", attempt |-> 0,
         tries |-> 0, all_failed |-> TRUE, lookups |-> 0, calls |-> <<>>,
         status |-> "none", result |-> FALSE]

\* the chats check_all_memberships asks about, in its order
RequiredChats ==
    (IF CHANNEL_ID # "" THEN <<"channel">> ELSE <<>>)
    \o (IF GROUP_ID # "" THEN <<"group">> ELSE <<>>)

\* what check_membership returned for `chat` in the call in progress (FALSE
\* for a chat not asked about, which check_all_memberships then ignores)
Answer(calls, chat) ==
    \E i \in DOMAIN calls : calls[i].chat = chat /\ calls[i].result

\* main.py:157-169: check_membership returned `result`; go on to the next
\* chat, or return all(results)
NextChat(v, result) ==
    LET calls == Append(v.calls, [chat |-> v.chat, result |-> result,
                                  tries |-> v.tries, all_failed |-> v.all_failed,
                                  status |-> v.status])
    IN IF v.todo = <<>>
       THEN [v EXCEPT !.pc = "done", !.calls = calls, !.chat = "none",
                      !.status = "none",
                      !.result = check_all_memberships(Answer(calls, "channel"),
                                                       Answer(calls, "group"))]
       ELSE [v EXCEPT !.pc = "direct", !.calls = calls, !.chat = Head(v.todo),
                      !.todo = Tail(v.todo), !.attempt = 0, !.tries = 1,
                      !.all_failed = TRUE, !.status = "none"]

\* main.py:135-143: both lookups of this attempt raised
AttemptFailed(v) ==
    IF LastAttempt(v.attempt) THEN NextChat(v, ExhaustedResult)
    ELSE [v EXCEPT !.pc = "sleep"]

\* main.py:152-160: check_all_memberships is called
VmCall ==
    /\ vm.pc \in {"idle", "done"}
    /\ vm' = IF ~REQUIRES_VERIFICATION
             THEN [NoVm EXCEPT !.pc = "done", !.result = TRUE]
             ELSE [NoVm EXCEPT !.pc = "direct", !.chat = Head(RequiredChats),
                               !.todo = Tail(RequiredChats), !.tries = 1]
    /\ UNCHANGED <<config, users_collection, custom_commands_collection, flags,
                   broadcast_task, task, handler, last, out>>

\* main.py:118-125: get_chat_member(chat_id, user_id) answers
DirectDone(o) ==
    /\ vm.pc = "direct"
    /\ vm' = IF o = "error"
             THEN [vm EXCEPT !.pc = "get_chat", !.lookups = @ + 1]
             ELSE NextChat([vm EXCEPT !.lookups = @ + 1, !.all_failed = FALSE,
                                      !.status = o],
                           IsPresent(o))
    /\ UNCHANGED <<config, users_collection, custom_commands_collection, flags,
                   broadcast_task, task, handler, last, out>>

\* main.py:130: get_chat(chat_id) answers
GetChatDone(ok) ==
    /\ vm.pc = "get_chat"
    /\ vm' = IF ok
             THEN [vm EXCEPT !.pc = "fallback", !.lookups = @ + 1]
             ELSE AttemptFailed([vm EXCEPT !.lookups = @ + 1])
    /\ UNCHANGED <<config, users_collection, custom_commands_collection, flags,
                   broadcast_task, task, handler, last, out>>

\* main.py:131-143: get_chat_member(chat.id, user_id) answers
FallbackDone(o) ==
    /\ vm.pc = "fallback"
    /\ vm' = IF o = "error"
             THEN AttemptFailed([vm EXCEPT !.lookups = @ + 1])
             ELSE NextChat([vm EXCEPT !.lookups = @ + 1, !.all_failed = FALSE,
                                      !.status = o],
                           IsPresent(o))
    /\ UNCHANGED <<config, users_collection, custom_commands_collection, flags,
                   broadcast_task, task, handler, last, out>>

\* main.py:143 and main.py:113: asyncio.sleep(1) is over; the next attempt
RetryAfterSleep ==
    /\ vm.pc = "sleep"
    /\ vm' = [vm EXCEPT !.pc = "direct", !.attempt = @ + 1, !.tries = @ + 1]
    /\ UNCHANGED <<config, users_collection, custom_commands_collection, flags,
                   broadcast_task, task, handler, last, out>>

(* ---------------------------------------------------------------------- *)
(* The access gate and the command handlers                               *)
(* ---------------------------------------------------------------------- *)

\* no update is being handled
NoHandler == [update |-> [cmd |-> "none", user |-> 0, reply_to |-> "none", args |-> <<>>],
              phase |-> "idle", is_member |-> TRUE]

\* a gate that lets the admin through unverified
GateDeniesButAdmin(u, is_member) ==
    ~is_member /\ REQUIRES_VERIFICATION /\ ~is_owner(u.user)

\* main.py:181: the gate's test
GateDenies(u, is_member) == ~is_member /\ REQUIRES_VERIFICATION

\* the handler returns having sent `reply`; is_member is what the gate got
\* from check_all_memberships, body whether the wrapped function was called
Reply(u, is_member, body, reply) ==
    /\ last' = [cmd |-> u.cmd, user |-> u.user, is_member |-> is_member,
                body |-> body, reply |-> reply]
    /\ handler' = NoHandler

\* the lowest slot holding no live task
FreeSlot == CHOOSE r \in Runs :
                /\ ~InProgress(task[r])
                /\ \A q \in Runs : ~InProgress(task[q]) => r <= q

\* main.py:791-799: the payload of /broadcast: the replied-to message, or a
\* text message made of the arguments
BroadcastPayload(u) == IF u.reply_to # "none" THEN u.reply_to ELSE "text"

\* /fcast taking its input the way /broadcast does
MissingInputSame(u) == u.reply_to = "none" /\ u.args = <<>>

\* main.py:784 and main.py:830: the command carries nothing to send
MissingInput(u) ==
    IF u.cmd = "fcast" THEN u.reply_to = "none"
    ELSE u.reply_to = "none" /\ u.args = <<>>

\* a start that does not look at broadcast_active
StartBodyUnguarded(u, m) ==
    IF ~is_owner(u.user)
    THEN /\ Reply(u, m, TRUE, "owner_only")
         /\ UNCHANGED <<task, broadcast_task>>
    ELSE IF MissingInput(u)
    THEN /\ Reply(u, m, TRUE, "usage")
         /\ UNCHANGED <<task, broadcast_task>>
    ELSE /\ task' = [task EXCEPT ![FreeSlot] =
                NewTask(u.cmd = "fcast",
                        IF u.cmd = "fcast" THEN u.reply_to ELSE BroadcastPayload(u))]
         /\ broadcast_task' = FreeSlot
         /\ Reply(u, m, TRUE, "none")

\* main.py:764-806 and main.py:810-842: the bodies of broadcast and fcast
StartBody(u, m) ==
    IF ~is_owner(u.user)
    THEN /\ Reply(u, m, TRUE, "owner_only")
         /\ UNCHANGED <<task, broadcast_task>>
    ELSE IF broadcast_active
    THEN /\ Reply(u, m, TRUE, "already_in_progress")
         /\ UNCHANGED <<task, broadcast_task>>
    ELSE IF MissingInput(u)
    THEN /\ Reply(u, m, TRUE, "usage")
         /\ UNCHANGED <<task, broadcast_task>>
    ELSE /\ task' = [task EXCEPT ![FreeSlot] =
                NewTask(u.cmd = "fcast",
                        IF u.cmd = "fcast" THEN u.reply_to ELSE BroadcastPayload(u))]
         /\ broadcast_task' = FreeSlot
         /\ Reply(u, m, TRUE, "none")

\* main.py:866-877: what the cancel command answers once wait_for is over,
\* by the way the awaited task ended; a cancelled task makes wait_for raise
\* CancelledError, which except Exception does not catch
WaitAnswer(exit) ==
    CASE exit = "returned" -> "cancelled_ok"
      [] exit = "raised" -> "cancel_error"
      [] OTHER -> "escaped"

\* a timeout that leaves the awaited task running
WaitForTimeoutLeaves(r) ==
    /\ out' = Edit("killed", r, task[r], 0)
    /\ UNCHANGED <<task, flags>>

\* main.py:868: asyncio.wait_for(broadcast_task, timeout=5.0) runs out: it
\* cancels the task it awaits. CancelledError is thrown into the task at
\* the await it is suspended in, no except clause of run_broadcast catches
\* it, and finally resets the flags.
WaitForTimeout(r) ==
    /\ task' = [task EXCEPT ![r] = Finished("cancelled")]
    /\ out' = Edit("killed", r, task[r], 0)
    /\ FinallyReset

\* main.py:846-877: the body of cancel_broadcast up to wait_for
CancelBody(u, m) ==
    IF ~is_owner(u.user)
    THEN /\ Reply(u, m, TRUE, "owner_only")
         /\ UNCHANGED <<flags, task>>
    ELSE IF ~broadcast_active
    THEN /\ Reply(u, m, TRUE, "no_active")
         /\ UNCHANGED <<flags, task>>
    ELSE /\ broadcast_cancelled' = TRUE
         /\ UNCHANGED broadcast_active
         /\ task' = [r \in Runs |->
                IF Running(task[r]) THEN [task[r] EXCEPT !.flagged = TRUE]
                ELSE task[r]]
         /\ IF broadcast_task = 0
            THEN Reply(u, m, TRUE, "cancelled_ok")
            ELSE IF task[broadcast_task].pc = "done"
            THEN Reply(u, m, TRUE, WaitAnswer(task[broadcast_task].exit))
            ELSE /\ handler' = [update |-> u, phase |-> "wait", is_member |-> m]
                 /\ last' = [cmd |-> u.cmd, user |-> u.user, is_member |-> m,
                             body |-> TRUE, reply |-> "none"]

\* main.py:375-404, 535-594, 880-919: lecture, stats and help read and reply
ReadOnlyBody(u, m) ==
    Reply(u, m, TRUE,
          IF u.cmd = "stats" /\ ~is_owner(u.user) THEN "owner_only" ELSE u.cmd)

\* main.py:426-434: the command name add_lecture stores
AddName(arg) ==
    LET command_name == Strip(Lower(arg))
    IN IF command_name # <<>> /\ Head(command_name) = "/"
       THEN Tail(command_name) ELSE command_name

\* main.py:408-461: the body of add_lecture
AddBody(u, m) ==
    IF ~is_owner(u.user)
    THEN /\ Reply(u, m, TRUE, "owner_only")
         /\ UNCHANGED custom_commands_collection
    ELSE IF Len(u.args) < 3
    THEN /\ Reply(u, m, TRUE, "usage")
         /\ UNCHANGED custom_commands_collection
    ELSE IF ~IsAlpha(AddName(u.args[1]))
    THEN /\ Reply(u, m, TRUE, "letters_only")
         /\ UNCHANGED custom_commands_collection
    ELSE /\ custom_commands_collection' =
                UpdateOne(custom_commands_collection, AddName(u.args[1]),
                          Strip(u.args[2]), Join(SubSeq(u.args, 3, Len(u.args))))
         /\ Reply(u, m, TRUE, "added")

\* main.py:483: the command name remove_lecture looks for
RemoveName(arg) == Strip(Lower(arg))

\* main.py:465-497: the body of remove_lecture
RemoveBody(u, m) ==
    IF ~is_owner(u.user)
    THEN /\ Reply(u, m, TRUE, "owner_only")
         /\ UNCHANGED custom_commands_collection
    ELSE IF u.args = <<>>
    THEN /\ Reply(u, m, TRUE, "usage")
         /\ UNCHANGED custom_commands_collection
    ELSE /\ custom_commands_collection' =
                DeleteOne(custom_commands_collection, RemoveName(u.args[1]))
         /\ Reply(u, m, TRUE,
                  IF Matches(custom_commands_collection, RemoveName(u.args[1])) # {}
                  THEN "removed" ELSE "not_found")

\* main.py:58
TUTORIAL_VIDEO_LINK == <<"t">>

\* main.py:509: find_one({"command": command})
FindOne(coll, command) == coll[First(Matches(coll, command))]

\* main.py:513-517: the urls of the two buttons of the reply
JoinButtons(cmd_data) == <<cmd_data.link, TUTORIAL_VIDEO_LINK>>

\* a lookup that keeps the case of the token
CustomBodyKeepsCase(u, m) ==
    LET command == Tail(u.args[1])
    IN /\ Reply(u, m, TRUE,
                IF Matches(custom_commands_collection, command) # {}
                THEN "group_link" ELSE "none")
       /\ UNCHANGED custom_commands_collection

\* main.py:501-532: the body of lecture_command_handler; args[1] is the
\* first word of the message, slash included
CustomBody(u, m) ==
    LET command == Lower(Tail(u.args[1]))
    IN /\ Reply(u, m, TRUE,
                IF Matches(custom_commands_collection, command) # {}
                THEN "group_link" ELSE "none")
       /\ UNCHANGED custom_commands_collection

\* the wrapped handler itself
Func(u, m) ==
    CASE u.cmd \in {"broadcast", "fcast"} ->
           /\ StartBody(u, m)
           /\ UNCHANGED <<flags, custom_commands_collection>>
      [] u.cmd = "cancel" ->
           /\ CancelBody(u, m)
           /\ UNCHANGED <<broadcast_task, custom_commands_collection>>
      [] u.cmd = "addlecture" ->
           /\ AddBody(u, m)
           /\ UNCHANGED <<flags, task, broadcast_task>>
      [] u.cmd = "removelecture" ->
           /\ RemoveBody(u, m)
           /\ UNCHANGED <<flags, task, broadcast_task>>
      [] u.cmd = "custom" ->
           /\ CustomBody(u, m)
           /\ UNCHANGED <<flags, task, broadcast_task>>
      [] OTHER ->
           /\ ReadOnlyBody(u, m)
           /\ UNCHANGED <<flags, task, broadcast_task, custom_commands_collection>>

\* main.py:250-317: the verification prompt replaces the handler
SendVerificationRequest(u, m) ==
    /\ Reply(u, m, FALSE, "verify")
    /\ UNCHANGED <<flags, task, broadcast_task, custom_commands_collection>>

\* main.py:176-186: wrapped(), once check_all_memberships has answered
Wrapped(u, is_member) ==
    IF GateDenies(u, is_member)
    THEN SendVerificationRequest(u, is_member)
    ELSE Func(u, is_member)

\* an update reaches its handler. With verification configured the handler
\* first awaits the membership lookups; without, check_all_memberships
\* returns at once and the body follows in the same step.
Receive(u) ==
    /\ handler.phase = "idle"
    /\ u.cmd \in {"broadcast", "fcast"} => \E r \in Runs : ~InProgress(task[r])
    /\ IF REQUIRES_VERIFICATION
       THEN /\ handler' = [update |-> u, phase |-> "gate", is_member |-> TRUE]
            /\ last' = NoLast
            /\ UNCHANGED <<flags, task, broadcast_task, custom_commands_collection>>
       ELSE Wrapped(u, check_all_memberships(FALSE, FALSE))
    /\ out' = NoOut
    /\ UNCHANGED <<config, users_collection, vm>>

\* the membership lookups of the gate have answered: ch for the channel, gr
\* for the group
GateDone(ch, gr) ==
    /\ handler.phase = "gate"
    /\ Wrapped(handler.update, check_all_memberships(ch, gr))
    /\ out' = NoOut
    /\ UNCHANGED <<config, users_collection, vm>>

\* main.py:866-873: the task awaited by /cancel ended within the 5 seconds
CancelWaitDone ==
    /\ handler.phase = "wait"
    /\ task[broadcast_task].pc = "done"
    /\ Reply(handler.update, handler.is_member, TRUE, WaitAnswer(task[broadcast_task].exit))
    /\ out' = NoOut
    /\ UNCHANGED <<config, users_collection, custom_commands_collection, flags,
                   task, broadcast_task, vm>>

\* main.py:868-873: the 5 seconds ran out first. The task has long taken
\* its first step by then.
CancelTimeout ==
    /\ handler.phase = "wait"
    /\ task[broadcast_task].pc \notin {"created", "done", "none"}
    /\ WaitForTimeout(broadcast_task)
    /\ Reply(handler.update, handler.is_member, TRUE, "cancelled_ok")
    /\ UNCHANGED <<config, users_collection, custom_commands_collection,
                   broadcast_task, vm>>

(* ---------------------------------------------------------------------- *)
(* The dispatcher: chat types, /start and the group filter                *)
(* ---------------------------------------------------------------------- *)

\* the chats a slash-command can come from
ChatTypes == {"private", "group", "supergroup"}

\* main.py:953-961: the commands with a CommandHandler of their own
BuiltIns == {"start", "lecture", "addlecture", "removelecture", "stats",
             "broadcast", "fcast", "cancel", "help"}

\* handlers registered without the private-chat filter
HandlerForAnyChat(chat_type, cmd) ==
    IF cmd \in BuiltIns THEN cmd ELSE "lecture_command_handler"

\* main.py:952-971: the handler the application picks for a slash-command,
\* the first one registered whose filter accepts the update
HandlerFor(chat_type, cmd) ==
    IF chat_type = "private"
    THEN IF cmd \in BuiltIns THEN cmd ELSE "lecture_command_handler"
    ELSE IF chat_type \in {"group", "supergroup"}
    THEN "ignore_group_commands"
    ELSE "none"

\* the user ids of the directory
UserIds(coll) == {coll[i] : i \in DOMAIN coll}

\* a handler that stores nobody
InsertNever(coll, user_id) == coll

\* an insert without the lookup
InsertAlways(coll, user_id) == Append(coll, user_id)

\* main.py:198-206: find_one({"user_id": user_id}), insert_one if absent
InsertIfAbsent(coll, user_id) ==
    IF user_id \in UserIds(coll) THEN coll ELSE Append(coll, user_id)

\* an update is taken from the update queue; the phase of the handler slot
\* is the type of the chat it came from until it is dispatched
Fetch(chat_type, u) ==
    /\ handler.phase = "idle"
    /\ handler' = [update |-> u, phase |-> chat_type, is_member |-> TRUE]
    /\ last' = NoLast
    /\ out' = NoOut
    /\ UNCHANGED <<config, users_collection, custom_commands_collection, flags,
                   broadcast_task, task, vm>>

\* main.py:921-925: ignore_group_commands returns at once
IgnoreGroupCommand(u) ==
    /\ Reply(u, TRUE, FALSE, "none")
    /\ UNCHANGED <<users_collection, custom_commands_collection, flags,
                   broadcast_task, task>>

\* main.py:189-227: start, up to the reply or to the membership lookups.
\* A failure of the document store is logged by the except at main.py:247.
StartBegin(u, db_ok) ==
    /\ UNCHANGED <<custom_commands_collection, flags, broadcast_task, task>>
    /\ IF ~db_ok
       THEN /\ Reply(u, TRUE, TRUE, "none")
            /\ UNCHANGED users_collection
       ELSE /\ users_collection' = InsertIfAbsent(users_collection, u.user)
            /\ IF ~REQUIRES_VERIFICATION
               THEN Reply(u, TRUE, TRUE, "welcome")
               ELSE /\ handler' = [update |-> u, phase |-> "start_gate",
                                   is_member |-> TRUE]
                    /\ last' = [cmd |-> u.cmd, user |-> u.user, is_member |-> TRUE,
                                body |-> TRUE, reply |-> "none"]

\* main.py:176-186: a wrapped handler is called
Invoke(u) ==
    /\ UNCHANGED users_collection
    /\ IF REQUIRES_VERIFICATION
       THEN /\ handler' = [update |-> u, phase |-> "gate", is_member |-> TRUE]
            /\ last' = NoLast
            /\ UNCHANGED <<flags, task, broadcast_task, custom_commands_collection>>
       ELSE Wrapped(u, check_all_memberships(FALSE, FALSE))

\* main.py:952-971: the update taken from the queue goes to its handler
Dispatch(db_ok) ==
    /\ handler.phase \in ChatTypes
    /\ LET u == handler.update
           h == HandlerFor(handler.phase, u.cmd)
       IN CASE h \in {"ignore_group_commands", "none"} -> IgnoreGroupCommand(u)
            [] h = "start" -> StartBegin(u, db_ok)
            [] OTHER -> Invoke(u)
    /\ out' = NoOut
    /\ UNCHANGED <<config, vm>>

\* main.py:227-246: the membership lookups of start have answered
StartGateDone(ch, gr) ==
    /\ handler.phase = "start_gate"
    /\ Reply(handler.update, check_all_memberships(ch, gr), TRUE,
             IF check_all_memberships(ch, gr) THEN "welcome" ELSE "verify")
    /\ out' = NoOut
    /\ UNCHANGED <<config, users_collection, custom_commands_collection, flags,
                   broadcast_task, task, vm>>

(* ---------------------------------------------------------------------- *)
(* Start-up: the environment and its check                                *)
(* ---------------------------------------------------------------------- *)

\* what the environment holds for a name: nothing, the empty string, or a
\* value
EnvValues == {"unset", "", "v"}

\* the truth value of os.getenv(name)
Truthy(v) == v \notin {"unset", ""}

\* main.py:62: the names the missing list is built from
CheckedNames == <<"TOKEN", "MONGODB_URI", "ADMIN_USER_ID">>

\* the environment of a process that came up: every setting present
Booted == [TELEGRAM_BOT_TOKEN |-> "v", TOKEN |-> "unset", MONGODB_URI |-> "v",
           ADMIN_USER_ID |-> "v", pc |-> "running", status |-> 0,
           missing |-> <<>>]

\* main.py:62-63: [var for var in [...] if not os.getenv(var)]
Missing(env) ==
    LET Absent(var) == ~Truthy(env[var])
    IN SelectSeq(CheckedNames, Absent)

\* main.py:53-66: the module reads the environment and verifies the
\* required variables
VerifyEnv ==
    /\ boot.pc = "start"
    /\ boot' = IF ~(Truthy(boot.TELEGRAM_BOT_TOKEN) /\ Truthy(boot.MONGODB_URI)
                    /\ Truthy(boot.ADMIN_USER_ID))
               THEN [boot EXCEPT !.pc = "exited", !.status = 1,
                                 !.missing = Missing(boot)]
               ELSE [boot EXCEPT !.pc = "mongo"]
    /\ UNCHANGED <<CHANNEL_ID, GROUP_ID, users_collection,
                   custom_commands_collection, flags, broadcast_task, task,
                   handler, last, out, vm>>

\* main.py:71-83: MongoDB setup; a failure exits with status 1
MongoSetup(ok) ==
    /\ boot.pc = "mongo"
    /\ boot' = IF ok THEN [boot EXCEPT !.pc = "running"]
               ELSE [boot EXCEPT !.pc = "exited", !.status = 1]
    /\ UNCHANGED <<CHANNEL_ID, GROUP_ID, users_collection,
                   custom_commands_collection, flags, broadcast_task, task,
                   handler, last, out, vm>>

\* the process is launched in some environment
BootInit ==
    /\ CHANNEL_ID \in {"", "@channel"}
    /\ GROUP_ID = ""
    /\ users_collection = <<>>
    /\ custom_commands_collection = <<>>
    /\ broadcast_active = FALSE
    /\ broadcast_cancelled = FALSE
    /\ broadcast_task = 0
    /\ task = [r \in Runs |-> NoTask]
    /\ handler = NoHandler
    /\ last = NoLast
    /\ out = NoOut
    /\ vm = NoVm
    /\ \E t \in EnvValues, o \in EnvValues, m \in EnvValues, a \in EnvValues :
          boot = [TELEGRAM_BOT_TOKEN |-> t, TOKEN |-> o, MONGODB_URI |-> m,
                  ADMIN_USER_ID |-> a, pc |-> "start", status |-> 0,
                  missing |-> <<>>]

BootNext ==
    \/ VerifyEnv
    \/ \E ok \in BOOLEAN : MongoSetup(ok)

BootSpec == BootInit /\ [][BootNext]_vars

(* ---------------------------------------------------------------------- *)
(* The engine alone: one run over a fixed directory                       *)
(* ---------------------------------------------------------------------- *)

\* the state right after an admin's /broadcast or /fcast was accepted, with
\* n users in the directory and verification not configured
RunInit ==
    /\ CHANNEL_ID = ""
    /\ GROUP_ID = ""
    /\ \E n \in 0..MaxDirectory : users_collection = [i \in 1..n |-> i]
    /\ custom_commands_collection = <<>>
    /\ broadcast_active = FALSE
    /\ broadcast_cancelled = FALSE
    /\ broadcast_task = 1
    /\ \E f \in BOOLEAN, k \in PayloadInputs :
           task = [r \in Runs |-> IF r = 1 THEN NewTask(f, k) ELSE NoTask]
    /\ handler = NoHandler
    /\ last = NoLast
    /\ out = NoOut
    /\ vm = NoVm
    /\ boot = Booted

RunNext ==
    \E r \in Runs :
        \/ EdgeStep(r)
        \/ LoopStep(r)
        \/ \E ok \in BOOLEAN : EditDone(r, ok)

RunSpec == RunInit /\ [][RunNext]_vars

(* ---------------------------------------------------------------------- *)
(* The bot: handlers and runs interleaved                                 *)
(* ---------------------------------------------------------------------- *)

Users == 1..MaxUsers

\* the text arguments the model feeds to /broadcast
ArgInputs == {<<>>, <<<<"h", "i">>>>}

Update(cmd, user, reply_to, args) ==
    [cmd |-> cmd, user |-> user, reply_to |-> reply_to, args |-> args]

\* the process after start-up, with some users already in the directory and
\* no required chat configured
Init ==
    /\ CHANNEL_ID = ""
    /\ GROUP_ID = ""
    /\ \E n \in 0..MaxUsers : users_collection = [i \in 1..n |-> i]
    /\ custom_commands_collection = <<>>
    /\ broadcast_active = FALSE
    /\ broadcast_cancelled = FALSE
    /\ broadcast_task = 0
    /\ task = [r \in Runs |-> NoTask]
    /\ handler = NoHandler
    /\ last = NoLast
    /\ out = NoOut
    /\ vm = NoVm
    /\ boot = Booted

Next ==
    \/ \E user \in Users, cmd \in {"broadcast", "fcast"},
          reply_to \in PayloadInputs \cup {"none"}, args \in ArgInputs :
            Receive(Update(cmd, user, reply_to, args))
    \/ \E user \in Users : Receive(Update("cancel", user, "none", <<>>))
    \/ CancelWaitDone
    \/ CancelTimeout
    \/ \E r \in Runs :
        \/ EdgeStep(r)
        \/ LoopStep(r)
        \/ \E ok \in BOOLEAN : CancelEditDone(r, ok)

Spec == Init /\ [][Next]_vars

\* the scheduling of the event loop: a task that can take a step is resumed
\* (every await of run_broadcast is a network call with a timeout, or a sleep)
RunFair(r) ==
    WF_vars(\/ EdgeStep(r)
            \/ LoopStep(r)
            \/ \E ok \in BOOLEAN : CancelEditDone(r, ok))

FairSpec == Spec /\ \A r \in Runs : RunFair(r)

(* ---------------------------------------------------------------------- *)
(* The access gate in front of every wrapped handler                      *)
(* ---------------------------------------------------------------------- *)

\* the command names, links and descriptions the model feeds to the
\* catalogue commands
NameInputs == {<<"a">>, <<"/", "a">>, <<"A">>, <<"a", "1">>}

LinkInputs == {<<"x">>, <<"y">>}

\* the updates the wrapped handlers receive
GateUpdates ==
    {Update(cmd, user, "none", <<>>) :
        cmd \in {"lecture", "stats", "help", "cancel", "addlecture",
                 "removelecture", "broadcast", "fcast"}, user \in Users}
    \cup {Update("addlecture", user, "none", <<name, link, <<"d">>, <<"e">>>>) :
            user \in Users, name \in NameInputs, link \in LinkInputs}
    \cup {Update("removelecture", user, "none", <<name>>) :
            user \in Users, name \in NameInputs}
    \cup {Update("custom", user, "none", <<name>>) :
            user \in Users, name \in {<<"/", "a">>, <<"/", "A">>, <<"/", "b">>}}
    \cup {Update("broadcast", user, "none", <<<<"h", "i">>>>) : user \in Users}
    \cup {Update("broadcast", user, "sticker", <<<<"h", "i">>>>) : user \in Users}
    \cup {Update("fcast", user, "none", <<<<"h", "i">>>>) : user \in Users}
    \cup {Update(cmd, user, "text", <<>>) :
            cmd \in {"broadcast", "fcast"}, user \in Users}

\* the process after start-up, with any configuration of required chats and
\* nobody in the directory yet
GateInit ==
    /\ CHANNEL_ID \in {"", "@channel"}
    /\ GROUP_ID \in {"", "-100"}
    /\ users_collection = <<>>
    /\ custom_commands_collection = <<>>
    /\ broadcast_active = FALSE
    /\ broadcast_cancelled = FALSE
    /\ broadcast_task = 0
    /\ task = [r \in Runs |-> NoTask]
    /\ handler = NoHandler
    /\ last = NoLast
    /\ out = NoOut
    /\ vm = NoVm
    /\ boot = Booted

GateNext ==
    \/ \E u \in GateUpdates : Receive(u)
    \/ \E ch \in BOOLEAN, gr \in BOOLEAN : GateDone(ch, gr)
    \/ CancelWaitDone
    \/ CancelTimeout
    \/ \E r \in Runs : EdgeStep(r)

GateSpec == GateInit /\ [][GateNext]_vars

(* ---------------------------------------------------------------------- *)
(* The directory and the catalogue behind the dispatcher                  *)
(* ---------------------------------------------------------------------- *)

\* the command names the model feeds to the catalogue commands here
ChatNames == NameInputs \cup {<<"b">>, <<"/">>}

\* the updates that do not concern a run
ChatUpdates ==
    {Update(cmd, user, "none", <<>>) :
        cmd \in {"start", "lecture", "stats", "help", "addlecture", "removelecture"},
        user \in Users}
    \cup {Update("addlecture", user, "none", <<name, link, <<"d">>, <<"e">>>>) :
            user \in Users, name \in ChatNames, link \in LinkInputs}
    \cup {Update("removelecture", user, "none", <<name>>) :
            user \in Users, name \in ChatNames}
    \cup {Update("custom", user, "none", <<word>>) :
            user \in Users,
            word \in {<<"/", "a">>, <<"/", "A">>, <<"/", "b">>, <<"/", "e">>}}

\* the process after start-up, with any configuration of required chats
ChatInit ==
    /\ CHANNEL_ID \in {"", "@channel"}
    /\ GROUP_ID \in {"", "-100"}
    /\ \E n \in 0..MaxUsers : users_collection = [i \in 1..n |-> i]
    /\ custom_commands_collection = <<>>
    /\ broadcast_active = FALSE
    /\ broadcast_cancelled = FALSE
    /\ broadcast_task = 0
    /\ task = [r \in Runs |-> NoTask]
    /\ handler = NoHandler
    /\ last = NoLast
    /\ out = NoOut
    /\ vm = NoVm
    /\ boot = Booted

ChatNext ==
    \/ \E u \in ChatUpdates : Fetch("private", u)
    \/ \E chat_type \in {"group", "supergroup"}, u \in ChatUpdates \cup GateUpdates :
          Fetch(chat_type, u)
    \/ \E db_ok \in BOOLEAN : Dispatch(db_ok)
    \/ \E ch \in BOOLEAN, gr \in BOOLEAN : GateDone(ch, gr)
    \/ \E ch \in BOOLEAN, gr \in BOOLEAN : StartGateDone(ch, gr)

ChatSpec == ChatInit /\ [][ChatNext]_vars

(* ---------------------------------------------------------------------- *)
(* Handlers whose calls fail                                              *)
(* ---------------------------------------------------------------------- *)

\* main.py:461, 497, 806, 842, 877: the handlers whose except clause sends
\* a reply; the except clauses of the others only log
RepliesOnError == {"addlecture", "removelecture", "broadcast", "fcast", "cancel"}

\* main.py:176-186 with the handler bodies: check_all_memberships has
\* answered, and the first call that can raise does: the reply of the
\* verification prompt (main.py:313), which no try encloses, or the first
\* chat-platform or document-store call of the handler's try block, whose
\* except clause then logs and, for some handlers, sends a reply that can
\* raise in its turn
GateFails(ch, gr, error_reply_ok) ==
    /\ handler.phase = "gate"
    /\ LET u == handler.update
           is_member == check_all_memberships(ch, gr)
       IN IF GateDenies(u, is_member)
          THEN Reply(u, is_member, FALSE, "escaped")
          ELSE IF u.cmd \notin RepliesOnError
          THEN Reply(u, is_member, TRUE, "none")
          ELSE IF error_reply_ok
          THEN Reply(u, is_member, TRUE, "error")
          ELSE Reply(u, is_member, TRUE, "escaped")
    /\ out' = NoOut
    /\ UNCHANGED <<config, users_collection, custom_commands_collection, flags,
                   broadcast_task, task, vm>>

\* the process after start-up, with a channel to verify against
FaultInit ==
    /\ CHANNEL_ID = "@channel"
    /\ GROUP_ID = ""
    /\ \E n \in 0..MaxUsers : users_collection = [i \in 1..n |-> i]
    /\ custom_commands_collection = <<>>
    /\ broadcast_active = FALSE
    /\ broadcast_cancelled = FALSE
    /\ broadcast_task = 0
    /\ task = [r \in Runs |-> NoTask]
    /\ handler = NoHandler
    /\ last = NoLast
    /\ out = NoOut
    /\ vm = NoVm
    /\ boot = Booted

FaultNext ==
    \/ \E u \in ChatUpdates : Fetch("private", u)
    \/ \E db_ok \in BOOLEAN : Dispatch(db_ok)
    \/ \E ch \in BOOLEAN, gr \in BOOLEAN : GateDone(ch, gr)
    \/ \E ch \in BOOLEAN, gr \in BOOLEAN, error_reply_ok \in BOOLEAN :
          GateFails(ch, gr, error_reply_ok)
    \/ \E ch \in BOOLEAN, gr \in BOOLEAN : StartGateDone(ch, gr)

FaultSpec == FaultInit /\ [][FaultNext]_vars

(* ---------------------------------------------------------------------- *)
(* The membership verifier alone                                          *)
(* ---------------------------------------------------------------------- *)

\* the process after start-up, with any configuration of required chats
MemberInit ==
    /\ CHANNEL_ID \in {"", "@channel"}
    /\ GROUP_ID \in {"", "-100"}
    /\ users_collection = <<>>
    /\ custom_commands_collection = <<>>
    /\ broadcast_active = FALSE
    /\ broadcast_cancelled = FALSE
    /\ broadcast_task = 0
    /\ task = [r \in Runs |-> NoTask]
    /\ handler = NoHandler
    /\ last = NoLast
    /\ out = NoOut
    /\ vm = NoVm
    /\ boot = Booted

MemberNext ==
    \/ VmCall
    \/ \E o \in Outcomes : DirectDone(o)
    \/ \E ok \in BOOLEAN : GetChatDone(ok)
    \/ \E o \in Outcomes : FallbackDone(o)
    \/ RetryAfterSleep

MemberSpec == MemberInit /\ [][MemberNext]_vars

(* ---------------------------------------------------------------------- *)
(* Users who join but never verify, and the runs that follow              *)
(* ---------------------------------------------------------------------- *)

\* the updates of this scenario: anyone sends /start, the admin starts runs
JoinUpdates ==
    {Update("start", user, "none", <<>>) : user \in Users}
    \cup {Update(cmd, 1, "text", <<>>) : cmd \in {"broadcast", "fcast"}}

\* the process after start-up, with a channel to verify against and an
\* empty directory
JoinInit ==
    /\ CHANNEL_ID = "@channel"
    /\ GROUP_ID \in {"", "-100"}
    /\ users_collection = <<>>
    /\ custom_commands_collection = <<>>
    /\ broadcast_active = FALSE
    /\ broadcast_cancelled = FALSE
    /\ broadcast_task = 0
    /\ task = [r \in Runs |-> NoTask]
    /\ handler = NoHandler
    /\ last = NoLast
    /\ out = NoOut
    /\ vm = NoVm
    /\ boot = Booted

\* nobody who sends /start is a member of every required chat; the admin's
\* own commands pass or fail the gate
JoinNext ==
    \/ \E u \in JoinUpdates :
          /\ u.cmd \in {"broadcast", "fcast"} => \E r \in Runs : ~InProgress(task[r])
          /\ Fetch("private", u)
    \/ \E db_ok \in BOOLEAN : Dispatch(db_ok)
    \/ \E ch \in BOOLEAN, gr \in BOOLEAN : GateDone(ch, gr)
    \/ \E ch \in BOOLEAN, gr \in BOOLEAN :
          /\ ~check_all_memberships(ch, gr)
          /\ StartGateDone(ch, gr)
    \/ \E r \in Runs :
        \/ EdgeStep(r)
        \/ LoopStep(r)

JoinSpec == JoinInit /\ [][JoinNext]_vars

(* ---------------------------------------------------------------------- *)
(* Catalogue entries named like a command of the bot                      *)
(* ---------------------------------------------------------------------- *)

\* main.py:953-961: the command names as they are typed after the slash
Spelling ==
    [start |-> <<"s", "t", "a", "r", "t">>,
     lecture |-> <<"l", "e", "c", "t", "u", "r", "e">>,
     addlecture |-> <<"a", "d", "d", "l", "e", "c", "t", "u", "r", "e">>,
     removelecture |-> <<"r", "e", "m", "o", "v", "e", "l", "e", "c", "t", "u", "r", "e">>,
     stats |-> <<"s", "t", "a", "t", "s">>,
     broadcast |-> <<"b", "r", "o", "a", "d", "c", "a", "s", "t">>,
     fcast |-> <<"f", "c", "a", "s", "t">>,
     cancel |-> <<"c", "a", "n", "c", "e", "l">>,
     help |-> <<"h", "e", "l", "p">>]

\* update.message.text.split()[0]: the first word of the message an update
\* carries, slash included
FirstWord(u) ==
    IF u.cmd \in BuiltIns THEN <<"/">> \o Spelling[u.cmd] ELSE u.args[1]

\* the updates of this scenario: the admin adds entries, one of them under
\* the name help; users send /help, /a and /b
ShadowUpdates ==
    {Update("addlecture", 1, "none", <<name, link, <<"d">>>>) :
        name \in {Spelling["help"], <<"a">>}, link \in LinkInputs}
    \cup {Update("help", user, "none", <<>>) : user \in Users}
    \cup {Update("custom", user, "none", <<word>>) :
            user \in Users, word \in {<<"/", "a">>, <<"/", "b">>}}

\* the process after start-up, with an empty catalogue
ShadowInit ==
    /\ CHANNEL_ID \in {"", "@channel"}
    /\ GROUP_ID = ""
    /\ \E n \in 0..MaxUsers : users_collection = [i \in 1..n |-> i]
    /\ custom_commands_collection = <<>>
    /\ broadcast_active = FALSE
    /\ broadcast_cancelled = FALSE
    /\ broadcast_task = 0
    /\ task = [r \in Runs |-> NoTask]
    /\ handler = NoHandler
    /\ last = NoLast
    /\ out = NoOut
    /\ vm = NoVm
    /\ boot = Booted

ShadowNext ==
    \/ \E u \in ShadowUpdates : Fetch("private", u)
    \/ \E db_ok \in BOOLEAN : Dispatch(db_ok)
    \/ \E ch \in BOOLEAN, gr \in BOOLEAN : GateDone(ch, gr)

ShadowSpec == ShadowInit /\ [][ShadowNext]_vars

(* ---------------------------------------------------------------------- *)
(* Claims                                                                 *)
(* ---------------------------------------------------------------------- *)

\* C1: at most one run_broadcast task is in progress at any time; a start
\* request handled after an earlier one was accepted and before that run
\* has ended creates no second run.
C1_AtMostOneRun == Cardinality({r \in Runs : InProgress(task[r])}) <= 1

\* C2: every started run eventually ends, and the step in which a run ends,
\* by whichever exit path, leaves broadcast_active = FALSE and
\* broadcast_cancelled = FALSE.
C2_RunEndsIdle ==
    /\ [][\A r \in Runs :
            (InProgress(task[r]) /\ task'[r].pc = "done")
                => (~broadcast_active' /\ ~broadcast_cancelled')]_vars
    /\ \A r \in Runs : InProgress(task[r]) ~> (task[r].pc = "done")

\* C2 witness: a run has ended through the except clause, whose own reply
\* raised too, and the state is Idle.
C2_Witness ==
    /\ out.kind = "error"
    /\ task[out.run].exit = "raised"
    /\ ~broadcast_active
    /\ ~broadcast_cancelled

\* C3: once /cancel has set the flag while a run is Running, that run
\* starts no new delivery attempt, the tally of a "cancelled" report is
\* the number of users attempted, and the run's end leaves the state Idle.
C3_CancelStopsRun ==
    [][\A r \in Runs :
        /\ task[r].flagged => ~(task'[r].pos > task[r].pos)
        /\ (out'.kind = "cancelled" /\ out'.run = r) =>
               (out'.sent = out'.after /\ ~broadcast_active' /\ ~broadcast_cancelled')]_vars

\* the bounded wait of /cancel ends in this step with the awaited task not
\* yet over
TimeoutStep ==
    /\ handler.phase = "wait"
    /\ handler'.phase = "idle"
    /\ InProgress(task[broadcast_task])

C5_FailuresIsolated ==
    [][\A r \in Runs :
        /\ task[r].pc \in {"sending", "await_edit", "sleeping"} =>
              /\ task'[r].pc \in {"sending", "await_edit", "sleeping", "await_final"}
              /\ task'[r].pc = "await_final" => task'[r].sent_to = users_collection
        /\ task[r].pc = "sending" =>
              \/ /\ task'[r].success_count = task[r].success_count + 1
                 /\ task'[r].failed_count = task[r].failed_count
              \/ /\ task'[r].success_count = task[r].success_count
                 /\ task'[r].failed_count = task[r].failed_count + 1]_vars

\* C5 witness: a forward run over three users or more is about to write the
\* "completed" report, some of its forwards having raised and some not.
C5_Witness ==
    \E r \in Runs :
        /\ task[r].pc = "await_final"
        /\ task[r].is_forward
        /\ task[r].failed_count >= 2
        /\ task[r].success_count >= 1
        /\ task[r].sent_to = users_collection

\* C6: the "completed" report of a run with no successful delivery shows
\* failed = the number of users, and that of a run with no failure shows
\* success = the number of users.
C6_ReportCounts ==
    out.kind = "completed" =>
        /\ out.success = 0 => out.failed = Len(users_collection)
        /\ out.failed = 0 => out.success = Len(users_collection)

\* C7: whenever success + failed reaches a positive multiple of 10 the run
\* goes to edit the progress message before the next attempt, and the
\* message is edited with the current counts at the 10th, 20th, ... attempt
\* only.
C7_ProgressEveryTen ==
    [][\A r \in Runs :
        LET n == task[r].success_count + task[r].failed_count
            n1 == task'[r].success_count + task'[r].failed_count
        IN /\ (task[r].pc = "sending" /\ n1 # n /\ n1 % ProgressEvery = 0)
                  => task'[r].pc = "await_edit"
           /\ (out'.kind = "progress" /\ out'.run = r)
                  => /\ out'.after % ProgressEvery = 0
                     /\ out'.success + out'.failed = out'.after]_vars

\* C8: when check_all_memberships has answered a wrapped handler, then, if
\* verification is required and the answer is FALSE, the handler body is
\* not invoked, the verification prompt is sent, and catalogue, tasks and
\* flags stay as they were, whoever asks; otherwise the body is invoked.
\* With verification disabled every update gets its handler body.
C8_GateShortCircuits ==
    [][/\ (handler.phase = "gate" /\ handler'.phase # "gate") =>
              IF REQUIRES_VERIFICATION /\ ~last'.is_member
              THEN /\ ~last'.body
                   /\ last'.reply = "verify"
                   /\ UNCHANGED <<custom_commands_collection, task,
                                  broadcast_task, flags>>
              ELSE last'.body
       /\ (~REQUIRES_VERIFICATION /\ last'.cmd # "none") => last'.body]_vars

\* C8 witness: the admin's /cancel of an active run was answered by the
\* verification prompt, and the cancel flag is not set.
C8_Witness ==
    /\ last.cmd = "cancel"
    /\ is_owner(last.user)
    /\ REQUIRES_VERIFICATION
    /\ ~last.is_member
    /\ last.reply = "verify"
    /\ broadcast_active
    /\ ~broadcast_cancelled

\* C9: check_all_memberships returns TRUE iff check_membership returned
\* TRUE for every configured chat, each asked about once; with no chat
\* configured it returns TRUE without a lookup.
C9_AllMemberships ==
    vm.pc = "done" =>
        /\ [i \in DOMAIN vm.calls |-> vm.calls[i].chat] = RequiredChats
        /\ vm.result = (\A i \in DOMAIN vm.calls : vm.calls[i].result)
        /\ RequiredChats = <<>> => (vm.result /\ vm.lookups = 0)

\* C9 witness: both chats are configured and the answer is FALSE because
\* the group alone reported non-membership.
C9_Witness ==
    /\ vm.pc = "done"
    /\ Len(vm.calls) = 2
    /\ vm.calls[1].result
    /\ ~vm.calls[2].result
    /\ ~vm.result

\* C10: a check_membership in which every lookup raised has made exactly 3
\* attempts of the two-step lookup and returned FALSE; check_membership
\* always returns, to check_all_memberships.
C10_FailsClosed ==
    /\ \A i \in DOMAIN vm.calls :
          vm.calls[i].all_failed =>
              (vm.calls[i].tries = max_retries /\ ~vm.calls[i].result)
    /\ vm.pc \in {"idle", "direct", "get_chat", "fallback", "sleep", "done"}
    /\ vm.attempt < max_retries

\* C10 witness: check_membership has returned after three attempts in which
\* every lookup raised.
C10_Witness ==
    /\ vm.pc = "done"
    /\ \E i \in DOMAIN vm.calls :
          /\ vm.calls[i].all_failed
          /\ vm.calls[i].tries = 3
          /\ ~vm.calls[i].result

\* a wrapped handler body runs in this step, for the update handler.update
BodyRuns ==
    /\ handler.phase \in {"private", "gate"}
    /\ handler'.phase = "idle"
    /\ last'.body

\* the admin's well-formed command `cmd` is carried out in this step
AdminRuns(cmd, nargs) ==
    /\ BodyRuns
    /\ handler.update.cmd = cmd
    /\ Str(handler.update.user) = ADMIN_USER_ID
    /\ Len(handler.update.args) >= nargs

\* the catalogue entries whose key is not `name`
Others(coll, name) == {coll[i] : i \in {j \in DOMAIN coll : coll[j].command # name}}

\* the key an addlecture argument stands for: lower-cased, one leading
\* slash removed
KeyOf(arg) ==
    IF Lower(arg) # <<>> /\ Head(Lower(arg)) = "/" THEN Tail(Lower(arg))
    ELSE Lower(arg)

\* a non-empty string of lower-case letters
IsKey(s) == s # <<>> /\ \A i \in DOMAIN s : s[i] \in {"a", "b", "e", "h", "l", "p"}

\* C11: the catalogue never holds two entries with the same command name;
\* a successful addlecture leaves exactly one entry for its name, with the
\* link and description just given, and every other entry as it was; the
\* catalogue changes in no step but a successful add or remove.
C11_OneEntryPerName ==
    /\ [](\A i, j \in DOMAIN custom_commands_collection :
             custom_commands_collection[i].command = custom_commands_collection[j].command
                 => i = j)
    /\ [][/\ (BodyRuns /\ last'.reply = "added") =>
                LET u == handler.update
                    name == KeyOf(u.args[1])
                    hits == {i \in DOMAIN custom_commands_collection' :
                                custom_commands_collection'[i].command = name}
                IN /\ Cardinality(hits) = 1
                   /\ \A i \in hits :
                         /\ custom_commands_collection'[i].link = u.args[2]
                         /\ custom_commands_collection'[i].description = <<"d", " ", "e">>
                   /\ Others(custom_commands_collection', name)
                          = Others(custom_commands_collection, name)
          /\ custom_commands_collection' # custom_commands_collection =>
                (BodyRuns /\ last'.reply \in {"added", "removed"})]_vars

\* C11 witness: after a successful add the catalogue holds one entry for a,
\* with the second link, in front of the entry for b.
C11_Witness ==
    /\ last.reply = "added"
    /\ Len(custom_commands_collection) = 2
    /\ custom_commands_collection[1].command = <<"a">>
    /\ custom_commands_collection[1].link = <<"y">>
    /\ custom_commands_collection[2].command = <<"b">>

\* C12: every key of the catalogue is a non-empty string of lower-case
\* letters with no leading slash; an admin's addlecture whose name, once
\* lower-cased and rid of one leading slash, is not such a string is
\* answered by the letters-only error and leaves the catalogue unchanged.
C12_KeysAreLetters ==
    /\ [](\A i \in DOMAIN custom_commands_collection :
             IsKey(custom_commands_collection[i].command))
    /\ [][(AdminRuns("addlecture", 3) /\ ~IsKey(KeyOf(handler.update.args[1]))) =>
             /\ last'.reply = "letters_only"
             /\ UNCHANGED custom_commands_collection]_vars

\* C12 witness: an addlecture was rejected for its name while the catalogue
\* holds an entry.
C12_Witness ==
    /\ last.cmd = "addlecture"
    /\ last.reply = "letters_only"
    /\ custom_commands_collection # <<>>

\* C13: an admin's removelecture of a name that is no key answers "not
\* found" and leaves the catalogue as it was; of a name that is a key, it
\* answers "removed" and deletes that entry alone.
C13_RemoveExactlyOne ==
    [][AdminRuns("removelecture", 1) =>
          LET name == Lower(handler.update.args[1])
              hits == {i \in DOMAIN custom_commands_collection :
                          custom_commands_collection[i].command = name}
          IN IF hits = {}
             THEN /\ last'.reply = "not_found"
                  /\ UNCHANGED custom_commands_collection
             ELSE /\ last'.reply = "removed"
                  /\ \E i \in hits :
                        custom_commands_collection' =
                            SubSeq(custom_commands_collection, 1, i - 1)
                            \o SubSeq(custom_commands_collection, i + 1,
                                      Len(custom_commands_collection))]_vars

\* C13 witness: an entry was removed and the other entry is still there.
C13_Witness ==
    /\ last.cmd = "removelecture"
    /\ last.reply = "removed"
    /\ Len(custom_commands_collection) = 1

\* the commands reserved to the admin
AdminCommands == {"addlecture", "removelecture", "stats", "broadcast", "fcast", "cancel"}

\* C14: an admin command of a requester whose id, as a string, is not the
\* configured admin id is answered by the owner-only refusal or by the
\* verification prompt, and changes neither the catalogue, the tasks, the
\* task reference nor the flags.
C14_AdminOnly ==
    [][(last'.cmd \in AdminCommands /\ Str(last'.user) # ADMIN_USER_ID) =>
          /\ last'.reply \in {"owner_only", "verify"}
          /\ UNCHANGED <<custom_commands_collection, task, broadcast_task,
                         flags>>]_vars

\* C14 witness: somebody else's /cancel was refused while a run is active,
\* and the cancel flag is not set.
C14_Witness ==
    /\ last.cmd = "cancel"
    /\ Str(last.user) # ADMIN_USER_ID
    /\ last.reply = "owner_only"
    /\ broadcast_active
    /\ ~broadcast_cancelled

\* the input /broadcast and /fcast ask for
HasInput(u) ==
    IF u.cmd = "fcast" THEN u.reply_to # "none"
    ELSE u.reply_to # "none" \/ u.args # <<>>

\* the body of the admin's /broadcast or /fcast runs in this step, no run
\* being active
AdminStarts ==
    /\ handler.phase = "gate"
    /\ handler'.phase = "idle"
    /\ last'.body
    /\ handler.update.cmd \in {"broadcast", "fcast"}
    /\ Str(handler.update.user) = ADMIN_USER_ID
    /\ ~broadcast_active

\* C18: an admin's /broadcast or /fcast, no run being active, creates a
\* task exactly when it carries its input (a replied-to message, or for
\* /broadcast text arguments); the payload is the replied-to message when
\* there is one. Without the input it answers with the usage text and
\* leaves tasks, task reference and flags alone. No task is created
\* otherwise.
C18_InputRequired ==
    [][/\ AdminStarts =>
            LET u == handler.update
            IN IF HasInput(u)
               THEN \E r \in Runs :
                       /\ ~InProgress(task[r])
                       /\ task'[r].pc = "created"
                       /\ task'[r].is_forward = (u.cmd = "fcast")
                       /\ task'[r].kind =
                              (IF u.reply_to # "none" THEN u.reply_to ELSE "text")
                       /\ broadcast_task' = r
                       /\ \A q \in Runs \ {r} : task'[q] = task[q]
               ELSE /\ last'.reply = "usage"
                    /\ UNCHANGED <<task, broadcast_task, flags>>
       /\ (REQUIRES_VERIFICATION
             /\ \E r \in Runs : task[r].pc # "created" /\ task'[r].pc = "created")
            => (AdminStarts /\ HasInput(handler.update))]_vars

\* C18 witness: a /broadcast that replied to a sticker and carried text
\* created a task whose payload is the sticker.
C18_Witness ==
    /\ last.cmd = "broadcast"
    /\ REQUIRES_VERIFICATION
    /\ broadcast_task # 0
    /\ task[broadcast_task].pc = "created"
    /\ ~task[broadcast_task].is_forward
    /\ task[broadcast_task].kind = "sticker"

\* C19: an admin's /broadcast or /fcast handled while broadcast_active is
\* TRUE is answered "already in progress" and leaves every task, the task
\* reference and both flags as they were.
C19_AlreadyInProgress ==
    [][(last'.cmd \in {"broadcast", "fcast"} /\ last'.body
            /\ Str(last'.user) = ADMIN_USER_ID /\ broadcast_active) =>
          /\ last'.reply = "already_in_progress"
          /\ UNCHANGED <<task, broadcast_task, flags>>]_vars

\* C19 witness: a start was refused while a run with a delivery behind it
\* is in its loop.
C19_Witness ==
    /\ last.reply = "already_in_progress"
    /\ broadcast_active
    /\ \E r \in Runs :
          /\ task[r].pc \in {"sending", "sleeping"}
          /\ task[r].success_count + task[r].failed_count >= 1

\* C15: a slash-command from a group or a supergroup, whatever it names and
\* whoever sends it, gets no handler body and no reply, and leaves the
\* directory, the catalogue, the tasks and the flags as they were.
C15_GroupsIgnored ==
    [][(handler.phase \in {"group", "supergroup"} /\ handler' # handler) =>
          /\ handler'.phase = "idle"
          /\ last'.cmd = handler.update.cmd
          /\ ~last'.body
          /\ last'.reply = "none"
          /\ UNCHANGED <<users_collection, custom_commands_collection, task,
                         broadcast_task, flags>>]_vars

\* C15 witness: the admin's /addlecture, sent in a group,
\* was ignored: no body, no reply, and the catalogue is still empty.
C15_Witness ==
    /\ last.cmd = "addlecture"
    /\ Str(last.user) = ADMIN_USER_ID
    /\ ~last.body
    /\ last.reply = "none"
    /\ custom_commands_collection = <<>>

\* C16: when the body of the handler of other commands runs, the reply is
\* the pair of buttons, to the link of the entry whose key is the
\* lower-cased token after the slash and to the tutorial video, if there is
\* such an entry; there is no reply if there is none; nothing else changes
\* either way.
C16_DynamicCommand ==
    [][(BodyRuns /\ handler.update.cmd = "custom") =>
          LET token == Lower(Tail(handler.update.args[1]))
              hits == {i \in DOMAIN custom_commands_collection :
                          custom_commands_collection[i].command = token}
          IN /\ IF hits = {}
                THEN last'.reply = "none"
                ELSE /\ last'.reply = "group_link"
                     /\ \A i \in hits :
                           JoinButtons(FindOne(custom_commands_collection, token))
                               = <<custom_commands_collection[i].link, <<"t">>>>
             /\ UNCHANGED <<users_collection, custom_commands_collection, task,
                            broadcast_task, flags>>]_vars

\* C16 witness: a member who is not the admin got the buttons while the
\* catalogue holds two entries.
C16_Witness ==
    /\ last.cmd = "custom"
    /\ Str(last.user) # ADMIN_USER_ID
    /\ last.is_member
    /\ last.reply = "group_link"
    /\ Len(custom_commands_collection) = 2

\* /start is dispatched in this step
StartRuns ==
    /\ handler.phase = "private"
    /\ handler.update.cmd = "start"
    /\ handler' # handler

\* C17: the directory never holds a user id twice; a /start whose
\* document-store calls succeed leaves its sender in the directory, appended
\* if absent and the directory untouched if present; no other step changes
\* the directory.
C17_OneRecordPerUser ==
    /\ [](\A i, j \in DOMAIN users_collection :
             users_collection[i] = users_collection[j] => i = j)
    /\ [][/\ (StartRuns /\ ~(handler'.phase = "idle" /\ last'.reply = "none")) =>
                users_collection' =
                    IF \E i \in DOMAIN users_collection :
                           users_collection[i] = handler.update.user
                    THEN users_collection
                    ELSE Append(users_collection, handler.update.user)
          /\ users_collection' # users_collection => StartRuns]_vars

\* C17 witness: both users are in the directory, the second one first, and
\* a /start has just been answered.
C17_Witness ==
    /\ last.cmd = "start"
    /\ last.reply = "welcome"
    /\ users_collection = <<2, 1>>

\* C20: no exception raised while a command is processed leaves its
\* handler as registered.
C20_NothingEscapes == last.reply # "escaped"

\* the required settings that are absent, by the names of the logged list
AbsentSettings ==
    {n \in {"TOKEN", "MONGODB_URI", "ADMIN_USER_ID"} :
        ~Truthy(boot[IF n = "TOKEN" THEN "TELEGRAM_BOT_TOKEN" ELSE n])}

\* C21: once the environment has been checked, if the bot token, the
\* database connection string or the admin identity is absent, the process
\* has exited with a non-zero status and the logged list names exactly the
\* absent ones.
C21_MissingListExact ==
    (boot.pc # "start" /\ AbsentSettings # {}) =>
        /\ boot.pc = "exited"
        /\ boot.status # 0
        /\ {boot.missing[i] : i \in DOMAIN boot.missing} = AbsentSettings

\* C22: a delivery attempt that follows another one in the same run starts
\* from the fixed delay: between two consecutive attempts the task was
\* suspended in asyncio.sleep, whether the earlier attempt succeeded or
\* failed.
C22_DelayBetweenAttempts ==
    [][\A r \in Runs :
          (task[r].pos > 0 /\ task'[r].pos > task[r].pos)
              => task[r].pc = "sleeping"]_vars

\* C23: a check_membership in which a lookup answered returned at once, TRUE
\* iff the status is member, administrator, creator or restricted and FALSE
\* for every other one; one in which none answered used all its attempts.
\* A retry (the sleep before the next attempt) is entered only from the
\* fallback lookup raising, after the direct lookup raised in the same
\* attempt, and a lookup that answers ends the call for that chat in the
\* same step.
C23_ReturnsOnFirstAnswer ==
    /\ [](\A i \in DOMAIN vm.calls :
            IF vm.calls[i].status = "none"
            THEN vm.calls[i].all_failed /\ vm.calls[i].tries = max_retries
            ELSE /\ ~vm.calls[i].all_failed
                 /\ vm.calls[i].result =
                        (vm.calls[i].status \in
                            {"member", "administrator", "creator", "restricted"}))
    /\ [][/\ (vm'.pc = "sleep" /\ vm.pc # "sleep")
                 => (vm.pc \in {"get_chat", "fallback"} /\ vm'.status = "none")
          /\ (vm'.attempt > vm.attempt) => vm.pc = "sleep"
          /\ (vm.pc \in {"direct", "fallback"} /\ vm'.status # vm.status)
                 => Len(vm'.calls) = Len(vm.calls) + 1]_vars

\* C23 witness: one check_membership returned FALSE on a "left" from the
\* direct lookup of its second attempt, after all three lookups of the first
\* had raised; the next returned TRUE on "restricted" from its first lookup.
C23_Witness ==
    /\ vm.pc = "done"
    /\ Len(vm.calls) = 2
    /\ vm.calls[1].status = "left" /\ vm.calls[1].tries = 2 /\ ~vm.calls[1].result
    /\ vm.calls[2].status = "restricted" /\ vm.calls[2].tries = 1
    /\ vm.calls[2].result
    /\ vm.lookups = 5

\* C24: in every reachable state broadcast_cancelled implies
\* broadcast_active: the cancel flag is not set while no run is active and
\* is not left set by a run that ends.
C24_CancelledOnlyWhileActive == broadcast_cancelled => broadcast_active

\* C24 witness: the cancel command set the flag during a run, which has not
\* read it yet.
C24_Witness ==
    /\ broadcast_cancelled
    /\ broadcast_active
    /\ \E r \in Runs : task[r].flagged /\ task[r].pc = "sleeping"

\* C25: at every point of a run success_count + failed_count equals the
\* number of users whose delivery attempt is over (the user being sent to
\* is not counted yet), whichever calls to the chat platform raise, the
\* edits of the progress message included.
C25_CountsEqualAttempts ==
    \A r \in Runs :
        Running(task[r]) =>
            task[r].success_count + task[r].failed_count
                = (IF task[r].pc = "sending" THEN task[r].pos - 1 ELSE task[r].pos)

\* C26: while a run_broadcast task is in progress (from asyncio.create_task
\* until the run has ended) the admin's /cancel is never answered "No active
\* broadcast to cancel".
C26_CancelFindsRun ==
    [][(/\ last'.cmd = "cancel"
        /\ Str(last'.user) = ADMIN_USER_ID
        /\ \E r \in Runs : InProgress(task[r]))
           => last'.reply # "no_active"]_vars

\* C27: a run on which /cancel set the flag, and whose end the cancel
\* command is waiting for (it then replies "Broadcast cancelled
\* successfully"), does not end with the "completed" report, wherever the
\* run was suspended when the flag was set.
C27_CancelledNotCompleted ==
    [][\A r \in Runs :
          (/\ handler.phase = "wait"
           /\ broadcast_task = r
           /\ task[r].flagged
           /\ task'[r].pc = "done"
           /\ task'[r].exit = "returned")
              => out'.kind # "completed"]_vars

\* C28: /start stores the user before the membership lookups and whatever
\* they answer: while start awaits them the user is in the directory, their
\* answer changes nothing in it, and no user leaves it. A run reads the
\* whole directory as it is then, and a run that gets to its final report
\* has made a delivery attempt for every user in it, so also for those who
\* never verified. (Runs that are cancelled or that fail stop earlier.)
C28_UnverifiedStillReached ==
    /\ [](/\ handler.phase = "start_gate"
              => handler.update.user \in UserIds(users_collection)
          /\ \A r \in Runs :
                /\ Running(task[r])
                      => task[r].sent_to = SubSeq(task[r].cursor, 1, task[r].pos)
                /\ task[r].pc = "await_final" => task[r].sent_to = task[r].cursor)
    /\ [][/\ handler.phase = "start_gate" => users_collection' = users_collection
          /\ UserIds(users_collection) \subseteq UserIds(users_collection')
          /\ \A r \in Runs :
                (task[r].pc = "await_progress" /\ Running(task'[r]))
                    => task'[r].cursor = users_collection]_vars

\* C28 witness: user 2, who sent /start and was answered with the
\* verification prompt (every /start here is), is in the directory, and a
\* run that has made its attempt for user 2 is about to write its final
\* report, while a later /start has just failed verification again.
C28_Witness ==
    /\ last.cmd = "start"
    /\ last.reply = "verify"
    /\ ~last.is_member
    /\ 2 \in UserIds(users_collection)
    /\ \E r \in Runs :
          /\ task[r].pc = "await_final"
          /\ \E i \in DOMAIN task[r].sent_to : task[r].sent_to[i] = 2

\* C29: an admin's removelecture whose argument addlecture would accept,
\* and would store under a key the catalogue holds, answers "removed" and
\* leaves no entry under that key: the two commands read the argument the
\* same way, a leading slash included.
C29_RemoveUndoesAdd ==
    [][(/\ AdminRuns("removelecture", 1)
        /\ IsKey(KeyOf(handler.update.args[1]))
        /\ \E i \in DOMAIN custom_commands_collection :
              custom_commands_collection[i].command = KeyOf(handler.update.args[1]))
          => /\ last'.reply = "removed"
             /\ \A i \in DOMAIN custom_commands_collection' :
                   custom_commands_collection'[i].command
                       # KeyOf(handler.update.args[1])]_vars

\* C30: a verified user's private message whose first word is a slash
\* followed by the name of a stored catalogue entry is answered with that
\* entry's join link, also when the name is that of a command of the bot.
C30_StoredIsServable ==
    [][(/\ handler.phase \in {"private", "gate"}
        /\ handler'.phase = "idle"
        /\ last'.is_member
        /\ \E i \in DOMAIN custom_commands_collection :
              custom_commands_collection[i].command
                  = Lower(Tail(FirstWord(handler.update))))
          => last'.reply = "group_link"]_vars

====
